---- MODULE Spec2Model ----
(***************************************************************************)
(* Model of the sender-recovery stage of the staged sync                   *)
(* (eth/stagedsync/stage_senders.go).                                      *)
(*                                                                         *)
(* The specifications share the variables below:                          *)
(*   SpecBuffer  the AddressBuffer (Add / Write / Read / Next) over a byte *)
(*               stream;                                                   *)
(*   Spec        spawnRecoverSendersStage as it is written: the flag       *)
(*               onlySecondStage is true, so a run is the apply pass       *)
(*               (recoverSendersFromDisk / writeBatchFromDisk) over the    *)
(*               file found at the fixed path, then s.Done() and the       *)
(*               panic; together with a process interruption after a       *)
(*               checkpoint commit;                                        *)
(*   SpecUnwind  calls of unwindSendersStage;                              *)
(*   SpecSpill   the body of the "if !onlySecondStage" block: producer     *)
(*               goroutine, recoverSenders workers and writeOnDiskBatch,   *)
(*               wired by the channels jobs, out, quitCh, doneCh, errCh;   *)
(*   SpecSpillFair  the same under the scheduling of the goroutines;       *)
(*   SpecSeek    the stream handler KvServer.Seek                          *)
(*               (ethdb/remote/remotedbserver/server2.go).                 *)
(*                                                                         *)
(* An address is modelled by a small number; on the byte stream it is the  *)
(* 20 bytes ToBytes gives, and SetBytes reads 20 bytes back.  The window   *)
(* (toSort), the channel capacities and the buffer size are scaled down.  *)
(***************************************************************************)
EXTENDS Integers, Sequences, FiniteSets, TLC

\* ------------------------------------------------------------------------
\* Bounds of the model and constants of the program
\* ------------------------------------------------------------------------

\* len(common.Address{}): the width of one record of the spill file
AddressLength == 20

\* number of blocks that storage holds (blocks 1..NumBlocks)
NumBlocks == 4

\* longest sequence of addresses put through the AddressBuffer harness
MaxAddrs == 3

\* largest read window (in records) of the AddressBuffer harness
MaxWindow == 2

Min(a, b) == IF a < b THEN a ELSE b

\* the sequence s without its first k elements (Go: s[k:])
Drop(s, k) == SubSeq(s, k + 1, Len(s))

\* the first k elements of s (Go: s[:k])
Take(s, k) == SubSeq(s, 1, k)

\* ------------------------------------------------------------------------
\* Addresses and their bytes
\* ------------------------------------------------------------------------

\* the zero address common.Address{}
ZeroAddress == 0

\* addr[:] : the 20 bytes of an address (big-endian, as common.Address)
ToBytes(a) == [i \in 1..AddressLength |->
                 IF i = AddressLength THEN a % 256
                 ELSE IF i = AddressLength - 1 THEN a \div 256
                 ELSE 0]

\* addr.SetBytes(b) for a 20-byte slice b
SetBytes(b) == b[AddressLength] + 256 * b[AddressLength - 1]

RECURSIVE Flatten(_)
\* the concatenation of the bytes of a sequence of addresses
Flatten(as) == IF as = <<>> THEN <<>> ELSE ToBytes(Head(as)) \o Flatten(Tail(as))

\* ------------------------------------------------------------------------
\* AddressBuffer
\* ------------------------------------------------------------------------

\* NewAddressBuffer(f, size, fullLength); the stream f is the variable file
NewAddressBuffer(size, fullLength) ==
    [buf        |-> IF fullLength THEN <<>>
                    ELSE [i \in 1..(size * AddressLength) |-> 0],
     size       |-> size,
     currentIdx |-> -1]

\* a.Reset()
Reset(a) == [a EXCEPT !.buf = <<>>]

\* a.Add(b)
Add(a, b) == [a EXCEPT !.buf = a.buf \o b]

\* a.Write(): the accumulator goes to the end of the stream f and is reset
Write(a, f) ==
    IF Len(a.buf) > 0
    THEN [a |-> Reset(a), file |-> f \o a.buf, n |-> Len(a.buf)]
    ELSE [a |-> a, file |-> f, n |-> 0]

\* a.Read(): fills a.buf from position pos of the stream f; the bytes of
\* a.buf beyond the n bytes read keep what they held
Read(a, f, pos) ==
    LET n == Min(Len(a.buf), Len(f) - pos)
    IN  [a   |-> [a EXCEPT !.buf = [i \in 1..Len(a.buf) |->
                                      IF i <= n THEN f[pos + i] ELSE a.buf[i]]],
         n   |-> n,
         pos |-> pos + n,
         err |-> IF n = 0 /\ Len(a.buf) > 0 THEN "EOF" ELSE "nil"]

\* a.Next()
Next(a, f, pos) ==
    LET a1 == IF (a.currentIdx + 2) * 20 > Len(a.buf)
              THEN [a EXCEPT !.currentIdx = -1] ELSE a
        r  == Read(a1, f, pos)
        rd == a1.currentIdx = -1
        a2 == IF rd THEN r.a ELSE a1
        p2 == IF rd THEN r.pos ELSE pos
        a3 == [a2 EXCEPT !.currentIdx = a2.currentIdx + 1]
    IN  IF rd /\ r.err # "nil"
        THEN [a |-> a2, pos |-> p2, addr |-> ZeroAddress, err |-> r.err]
        ELSE IF rd /\ r.n % AddressLength # 0
        THEN [a |-> a2, pos |-> p2, addr |-> ZeroAddress, err |-> "invalid length"]
        ELSE IF rd /\ r.n = 0
        THEN [a |-> a2, pos |-> p2, addr |-> ZeroAddress, err |-> "EOF"]
        ELSE [a |-> a3, pos |-> p2,
              addr |-> SetBytes(SubSeq(a3.buf, a3.currentIdx * 20 + 1,
                                               (a3.currentIdx + 1) * 20)),
              err |-> "nil"]

\* ------------------------------------------------------------------------
\* Blocks, bodies and transactions
\* ------------------------------------------------------------------------

\* most transactions in one block body
MaxTxs == 2

Blocks == 1..NumBlocks

\* the address direct signature recovery gives for transaction i of block k
Sig(k, i) == 10 * k + i

\* a transaction: sig is the address its signature recovers to, ok whether
\* the recovery succeeds, protected/chain its replay protection, from the
\* sender stored with it (<<>> when none is set, <<address>> otherwise)
Tx(k, i) == [sig |-> Sig(k, i), ok |-> TRUE, protected |-> TRUE,
             chain |-> "main", from |-> <<>>]

\* a body of n well-formed transactions of block k, no sender set
PlainBody(k, n) == [i \in 1..n |-> Tx(k, i)]

\* tx.SetFrom(addr) on every transaction of a body
SetFroms(body, addrs) ==
    [i \in 1..Len(body) |-> [body[i] EXCEPT !.from = <<addrs[i]>>]]

\* the senders that direct recovery gives for a body
DirectSenders(body) == [i \in 1..Len(body) |-> body[i].sig]

\* the body with every sender set by direct recovery
Recovered(body) == SetFroms(body, DirectSenders(body))

\* a batch with no pending put (stateDB.NewBatch())
NewBatch == [bodies |-> <<>>, progress |-> <<>>, unwind |-> <<>>]

\* the bodies as read through a mutation: reads see the pending puts
Overlay(d, m) ==
    [k \in DOMAIN d.bodies |-> IF k \in DOMAIN m.bodies THEN m.bodies[k]
                                                       ELSE d.bodies[k]]

\* rawdb.WriteBody(ctx, mutation, hash, number, body)
WriteBody(m, number, body) ==
    [m EXCEPT !.bodies = (number :> body) @@ m.bodies]

\* mutation.BatchSize(), counted in pending puts
BatchSize(m) == Cardinality(DOMAIN m.bodies) + Len(m.progress) + Len(m.unwind)

\* mutation.Commit(): the pending puts reach the database
Commit(d, m) ==
    [bodies   |-> Overlay(d, m),
     progress |-> IF m.progress = <<>> THEN d.progress ELSE m.progress[1],
     unwind   |-> IF m.unwind = <<>> THEN d.unwind ELSE m.unwind[1]]

\* stages.SaveStageUnwind(db, stages.Senders, invalidation): puts the unwind
\* marker of the stage and nothing else
SaveStageUnwind(m, invalidation) == [m EXCEPT !.unwind = <<invalidation>>]

\* s.Update(db, newBlockNum): puts the progress cursor of the stage
Update(m, newBlockNum) == [m EXCEPT !.progress = <<newBlockNum>>]

\* stages.GetStageProgress(db, stages.Senders)
GetStageProgress(d) == d.progress

\* getBlockBody: the job for block n, or <<>> when the canonical hash or the
\* body is absent; view is the bodies as read through the mutation
getBlockBody(view, n) ==
    IF n \in DOMAIN view
    THEN <<[blockBody |-> view[n], nextBlockNumber |-> n, signer |-> "main"]>>
    ELSE <<>>

\* ------------------------------------------------------------------------
\* The apply pass
\* ------------------------------------------------------------------------

\* read window of the AddressBuffer, in records (const batch, scaled down)
batch == 2

\* mutation.IdealBatchSize(), counted in pending puts
IdealBatchSize == 3

\* interruptions of the process that the model follows
MaxCrashes == 1

\* calls of unwindSendersStage that the model follows
MaxUnwinds == 1

\* one pass of the loop "for i := range job.blockBody.Transactions": a call
\* of buf.Next(), its address kept
ReadAddr(st, f) ==
    LET r == Next(st.a, f, st.pos)
    IN  [a |-> r.a, pos |-> r.pos, err |-> r.err,
         addrs |-> IF r.err = "nil" THEN Append(st.addrs, r.addr) ELSE st.addrs]

RECURSIVE ReadAddrs(_, _, _)
\* the loop "for i := range job.blockBody.Transactions { buf.Next() }":
\* k calls of Next, stopping at the first error
ReadAddrs(st, f, k) ==
    IF k = 0 \/ st.err # "nil" THEN st ELSE ReadAddrs(ReadAddr(st, f), f, k - 1)

\* one iteration of the loop of writeBatchFromDisk, up to WriteBody
ApplyIter(view, a, f, pos, next) ==
    LET job == getBlockBody(view, next)
    IN  IF job = <<>>
        THEN [kind |-> "break", a |-> a, pos |-> pos, err |-> "nil"]
        ELSE LET rd == ReadAddrs([a |-> a, pos |-> pos, err |-> "nil", addrs |-> <<>>],
                                 f, Len(job[1].blockBody))
             IN  IF rd.err # "nil"
                 THEN [kind |-> "error", a |-> rd.a, pos |-> rd.pos, err |-> rd.err]
                 ELSE [kind |-> "written", a |-> rd.a, pos |-> rd.pos, err |-> "nil",
                       block |-> job[1].nextBlockNumber,
                       body |-> SetFroms(job[1].blockBody, rd.addrs)]

RECURSIVE ApplyPass(_, _, _, _, _)
\* the bodies that one uninterrupted writeBatchFromDisk leaves, every batch
\* committed
ApplyPass(view, a, f, pos, next) ==
    LET it == ApplyIter(view, a, f, pos, next)
    IN  IF it.kind = "written"
        THEN ApplyPass([view EXCEPT ![it.block] = it.body], it.a, f, it.pos, next + 1)
        ELSE view

VARIABLES
    buf,        \* the AddressBuffer in use
    file,       \* the bytes of the spill file
    filePos,    \* read offset of the open file
    bInput,     \* harness: the addresses to put through the buffer
    bRead,      \* harness: the addresses Next has returned
    bErr,       \* harness: the error of the last Next
    bPc,        \* harness: "write", "read" or "end"
    db,         \* database: bodies, progress cursor and unwind marker
    mutation,   \* the pending mutation of the run
    pc,         \* where spawnRecoverSendersStage is
    nextBlockNumber, \* writeBatchFromDisk: the next block to read
    ret,        \* what the run returned, or how it ended
    stageDone,  \* s.Done() was called
    quit,       \* quitCh is closed
    phases,     \* history: the phases the run has executed
    lastWritten, \* history: the block of the last WriteBody of the pass
    atCheckpoint, \* history: the last iteration committed a checkpoint
    crashes,    \* history: interruptions so far
    db0,        \* history: the database when the model starts
    applyErr,   \* the error recoverSendersFromDisk returned
    unwound,    \* history: the calls of unwindSendersStage, each with its
                \* argument and the database before and after
    firstPass,  \* history: for each completed run, in order, the database it
                \* left and the error its apply pass returned
    jobs,       \* the channel jobs: the jobs queued
    jobsClosed, \* close(jobs) was called
    out,        \* the channel out: the results queued
    doneCh,     \* doneCh (and errCh) is closed
    prod,       \* where the producer goroutine is, and the job it holds
    firstBlock, \* the two cells firstBlock has pointed to (lines 92, 139)
    workers,    \* each recoverSenders goroutine: state and result in hand
    writer,     \* locals of writeOnDiskBatch: buffer, currentBlock, isFirst, n,
                \* and (history) the number of blocks flushed by windows
    wRet,       \* what writeOnDiskBatch returned ("none" while it runs)
    appended,   \* history: <<block, index>> of every address appended to
                \* the spill buffer, in order
    wErrResult, \* history: the results with an error that the writer received
    sent,       \* history: the block numbers of the results that workers
                \* have put on the channel out
    kv,         \* KvServer: the key-value store, as the next Begin sees it
    seek,       \* KvServer.Seek: where the handler is, and its locals
    stream      \* history of the gRPC stream: messages received, pairs sent,
                \* and the commits of other transactions meanwhile

bufVars == <<buf, file, filePos, bInput, bRead, bErr, bPc>>

dbVars == <<db>>

stageVars == <<mutation, pc, nextBlockNumber, ret, stageDone, quit,
               phases, lastWritten, atCheckpoint, crashes, db0,
               applyErr, unwound, firstPass>>

harnessVars == <<bInput, bRead, bErr, bPc>>

pipeVars == <<jobs, jobsClosed, out, doneCh, prod, firstBlock, workers, writer,
              wRet, appended, wErrResult, sent>>

seekVars == <<kv, seek, stream>>

vars == <<bufVars, dbVars, stageVars, pipeVars, seekVars>>

\* the variables of the stage at rest
StageIdle ==
    /\ mutation = NewBatch
    /\ pc = "idle"
    /\ nextBlockNumber = 0
    /\ ret = "none"
    /\ stageDone = FALSE
    /\ quit = FALSE
    /\ phases = <<>>
    /\ lastWritten = 0
    /\ atCheckpoint = FALSE
    /\ crashes = 0
    /\ applyErr = "nil"
    /\ unwound = <<>>
    /\ firstPass = <<>>
    /\ jobs = <<>>
    /\ jobsClosed = FALSE
    /\ out = <<>>
    /\ doneCh = FALSE
    /\ prod = [pc |-> "off", job |-> <<>>]
    /\ firstBlock = [old |-> 0, new |-> 0, cur |-> "old"]
    /\ workers = <<>>
    /\ writer = [buffer |-> <<>>, currentBlock |-> 0, isFirst |-> TRUE, n |-> 0,
                 flushed |-> 0]
    /\ wRet = "none"
    /\ appended = <<>>
    /\ wErrResult = <<>>
    /\ sent = {}

\* no KvServer stream is open
SeekIdle ==
    /\ kv = <<>>
    /\ seek = [pc |-> "off"]
    /\ stream = [recvd |-> 0, sent |-> <<>>, lockStep |-> TRUE, commits |-> 0]

\* addresses of the harness
HarnessAddrs == {1, 2}

RECURSIVE SeqsUpTo(_, _)
\* all sequences over S of length at most k
SeqsUpTo(S, k) ==
    IF k = 0 THEN {<<>>}
    ELSE LET T == SeqsUpTo(S, k - 1)
         IN  T \cup {Append(t, x) : t \in {u \in T : Len(u) = k - 1}, x \in S}

InitBuffer ==
    /\ bInput \in SeqsUpTo(HarnessAddrs, MaxAddrs)
    /\ buf = NewAddressBuffer(MaxWindow, TRUE)
    /\ file = <<>>
    /\ filePos = 0
    /\ bRead = <<>>
    /\ bErr = "nil"
    /\ bPc = "write"
    /\ db = [bodies |-> [k \in Blocks |-> PlainBody(k, 1)],
             progress |-> 0, unwind |-> 0]
    /\ db0 = db
    /\ StageIdle
    /\ SeekIdle

\* number of addresses added so far: those flushed and those accumulated
bAdded == (Len(file) + Len(buf.buf)) \div AddressLength

BufAdd ==
    /\ bPc = "write"
    /\ bAdded < Len(bInput)
    /\ buf' = Add(buf, ToBytes(bInput[bAdded + 1]))
    /\ UNCHANGED <<file, filePos, bInput, bRead, bErr, bPc, dbVars, stageVars, pipeVars, seekVars>>

BufWrite ==
    /\ bPc = "write"
    /\ Len(buf.buf) > 0
    /\ LET w == Write(buf, file)
       IN  buf' = w.a /\ file' = w.file
    /\ UNCHANGED <<filePos, bInput, bRead, bErr, bPc, dbVars, stageVars, pipeVars, seekVars>>

\* the stream is re-opened for reading with a window of w records
BufOpenRead ==
    /\ bPc = "write"
    /\ bAdded = Len(bInput)
    /\ Len(buf.buf) = 0
    /\ \E w \in 1..MaxWindow : buf' = NewAddressBuffer(w, FALSE)
    /\ filePos' = 0
    /\ bPc' = "read"
    /\ UNCHANGED <<file, bInput, bRead, bErr, dbVars, stageVars, pipeVars, seekVars>>

BufNext ==
    /\ bPc = "read"
    /\ LET r == Next(buf, file, filePos)
       IN  /\ buf' = r.a
           /\ filePos' = r.pos
           /\ bErr' = r.err
           /\ bRead' = IF r.err = "nil" THEN Append(bRead, r.addr) ELSE bRead
           /\ bPc' = IF r.err = "nil" THEN "read" ELSE "end"
    /\ UNCHANGED <<file, bInput, dbVars, stageVars, pipeVars, seekVars>>

NextBuffer == BufAdd \/ BufWrite \/ BufOpenRead \/ BufNext

SpecBuffer == InitBuffer /\ [][NextBuffer]_vars

\* C5: once Next has failed, the addresses it returned before are exactly
\* the addresses that were added, in order, and the failure is EOF.
C5_RoundTrip ==
    bPc = "end" => (bRead = bInput /\ bErr = "EOF")

\* ------------------------------------------------------------------------
\* Spec: spawnRecoverSendersStage as written, unwindSendersStage
\* ------------------------------------------------------------------------

\* highest progress cursor the model starts with
MaxStart == 1

\* number of blocks that storage holds in Spec (blocks 1..StageBlocks)
StageBlocks == 5

\* the flag of spawnRecoverSendersStage that skips the spill phase
onlySecondStage == TRUE

RECURSIVE SendersFrom(_, _)
\* the addresses direct recovery gives for blocks k..NumBlocks, in block and
\* transaction order
SendersFrom(bs, k) ==
    IF k > Len(bs) THEN <<>> ELSE DirectSenders(bs[k]) \o SendersFrom(bs, k + 1)

\* what the file at the fixed path may hold: the senders of the blocks after
\* the cursor cut at any record, or the senders of all blocks from block 1
FileChoices(bs, p) ==
    LET c == SendersFrom(bs, p + 1)
    IN  {Flatten(Take(c, n)) : n \in 0..Len(c)} \cup {Flatten(SendersFrom(bs, 1))}

\* the database before a call: the blocks up to the progress cursor have
\* their senders, the unwind marker is set or not
StageDb ==
    /\ \E cnt \in [1..StageBlocks -> 0..MaxTxs], p \in 0..MaxStart,
          u \in {0, StageBlocks} :
         db = [bodies   |-> [k \in 1..StageBlocks |->
                               IF k <= p THEN Recovered(PlainBody(k, cnt[k]))
                                         ELSE PlainBody(k, cnt[k])],
               progress |-> p,
               unwind   |-> u]
    /\ db0 = db

\* the stage at rest and no file read yet
StageRest ==
    /\ buf = NewAddressBuffer(batch, FALSE)
    /\ filePos = 0
    /\ bInput = <<>>
    /\ bRead = <<>>
    /\ bErr = "nil"
    /\ bPc = "off"
    /\ StageIdle
    /\ SeekIdle

InitStage ==
    /\ StageDb
    /\ file \in FileChoices(db.bodies, db.progress)
    /\ StageRest

\* unwindSendersStage does not look at the file
InitUnwind ==
    /\ StageDb
    /\ file = <<>>
    /\ StageRest

\* spawnRecoverSendersStage up to the call of writeBatchFromDisk: the stop
\* check, the new batch, the skipped spill phase, and recoverSendersFromDisk
\* opening the file for reading
spawnRecoverSendersStage_Begin ==
    /\ pc = "idle"
    /\ IF quit
       THEN /\ pc' = "returned"
            /\ ret' = "ErrStopped"
            /\ UNCHANGED <<mutation, buf, filePos, nextBlockNumber, phases,
                           atCheckpoint, lastWritten>>
       ELSE /\ mutation' = NewBatch
            /\ pc' = IF onlySecondStage THEN "apply" ELSE "spill"
            /\ phases' = IF onlySecondStage THEN <<"apply">> ELSE <<"spill">>
            /\ buf' = NewAddressBuffer(batch, FALSE)
            /\ filePos' = 0
            /\ nextBlockNumber' = db.progress + 1
            /\ atCheckpoint' = FALSE
            /\ lastWritten' = 0
            /\ ret' = "none"
    /\ UNCHANGED <<file, harnessVars, pipeVars, seekVars, db, stageDone, quit, crashes, db0,
                   applyErr, unwound, firstPass>>

\* one iteration of the loop of writeBatchFromDisk
writeBatchFromDisk ==
    /\ pc = "apply"
    /\ LET it == ApplyIter(Overlay(db, mutation), buf, file, filePos, nextBlockNumber)
       IN  /\ buf' = it.a
           /\ filePos' = it.pos
           /\ IF it.kind = "break"
              THEN /\ pc' = "applied"
                   /\ applyErr' = "nil"
                   /\ atCheckpoint' = FALSE
                   /\ UNCHANGED <<db, mutation, nextBlockNumber, lastWritten>>
              ELSE IF it.kind = "error"
              THEN /\ pc' = "applied"
                   /\ applyErr' = it.err
                   /\ nextBlockNumber' = nextBlockNumber + 1
                   /\ atCheckpoint' = FALSE
                   /\ UNCHANGED <<db, mutation, lastWritten>>
              ELSE LET m1 == WriteBody(mutation, it.block, it.body)
                       n1 == nextBlockNumber + 1
                   IN  /\ nextBlockNumber' = n1
                       /\ lastWritten' = it.block
                       /\ IF BatchSize(m1) >= IdealBatchSize
                          THEN /\ db' = Commit(db, Update(m1, n1))
                               /\ mutation' = NewBatch
                               /\ atCheckpoint' = TRUE
                          ELSE /\ mutation' = m1
                               /\ atCheckpoint' = FALSE
                               /\ UNCHANGED db
                       /\ UNCHANGED <<pc, applyErr>>
    /\ UNCHANGED <<file, harnessVars, pipeVars, seekVars, ret, stageDone, quit, phases, crashes,
                   db0, unwound, firstPass>>

\* spawnRecoverSendersStage after recoverSendersFromDisk: the error check,
\* s.Done(), the panic, and the deferred mutation.Commit()
spawnRecoverSendersStage_End ==
    /\ pc = "applied"
    /\ db' = Commit(db, mutation)
    /\ mutation' = NewBatch
    /\ atCheckpoint' = FALSE
    /\ IF applyErr # "nil" /\ applyErr # "EOF"
       THEN /\ pc' = "returned"
            /\ ret' = applyErr
            /\ UNCHANGED <<stageDone, phases>>
       ELSE /\ stageDone' = TRUE
            /\ phases' = Append(phases, "done")
            /\ pc' = "panicked"
            /\ ret' = "panic"
    /\ UNCHANGED <<buf, file, filePos, harnessVars, pipeVars, seekVars, nextBlockNumber, quit,
                   lastWritten, crashes, db0, applyErr, unwound, firstPass>>

\* the process is interrupted right after a checkpoint commit: the batch in
\* memory is lost, the database and the file stay
Interrupt ==
    /\ pc = "apply"
    /\ atCheckpoint
    /\ crashes < MaxCrashes
    /\ crashes' = crashes + 1
    /\ pc' = "idle"
    /\ mutation' = NewBatch
    /\ atCheckpoint' = FALSE
    /\ UNCHANGED <<buf, file, filePos, harnessVars, pipeVars, seekVars, db, nextBlockNumber, ret,
                   stageDone, quit, phases, lastWritten, db0, applyErr, unwound,
                   firstPass>>

\* quitCh is closed
Stop ==
    /\ ~quit
    /\ quit' = TRUE
    /\ UNCHANGED <<bufVars, pipeVars, seekVars, db, mutation, pc, nextBlockNumber, ret, stageDone,
                   phases, lastWritten, atCheckpoint, crashes, db0, applyErr,
                   unwound, firstPass>>

\* unwindSendersStage with a plausible slip: the cursor is saved on every path
unwindSendersStageDb_SavesCursor(d, point) ==
    Commit(d, Update(SaveStageUnwind(NewBatch, 0), point))

\* the database that unwindSendersStage(stateDB, point) leaves
unwindSendersStageDb(d, point) ==
    LET lastProcessedBlockNumber == GetStageProgress(d)
    IN  IF point >= lastProcessedBlockNumber
        THEN Commit(d, SaveStageUnwind(NewBatch, 0))
        ELSE Commit(d, SaveStageUnwind(NewBatch, 0))

\* a call unwindSendersStage(stateDB, point), between runs of the stage
unwindSendersStage ==
    /\ pc = "idle"
    /\ Len(unwound) < MaxUnwinds
    /\ \E point \in 0..StageBlocks :
         /\ db' = unwindSendersStageDb(db, point)
         /\ unwound' = Append(unwound, [point |-> point, before |-> db, after |-> db'])
    /\ UNCHANGED <<bufVars, pipeVars, seekVars, mutation, pc, nextBlockNumber, ret, stageDone, quit,
                   phases, lastWritten, atCheckpoint, crashes, db0, applyErr,
                   firstPass>>

\* runs of the stage over the same database and file that the model follows
MaxRuns == 2

\* the stage is run again after a run that marked it done: the process was
\* ended by the panic, the database and the file stay
spawnRecoverSendersStage_Again ==
    /\ pc = "panicked"
    /\ Len(firstPass) + 1 < MaxRuns
    /\ firstPass' = Append(firstPass, [db |-> db, err |-> applyErr])
    /\ pc' = "idle"
    /\ UNCHANGED <<bufVars, pipeVars, seekVars, db, mutation, nextBlockNumber, ret, stageDone,
                   quit, phases, lastWritten, atCheckpoint, crashes, db0, applyErr,
                   unwound>>

NextStage ==
    \/ spawnRecoverSendersStage_Begin
    \/ writeBatchFromDisk
    \/ spawnRecoverSendersStage_End
    \/ Interrupt
    \/ Stop
    \/ spawnRecoverSendersStage_Again

Spec == InitStage /\ [][NextStage]_vars

\* SpecUnwind: calls of unwindSendersStage on the databases a run may leave
NextUnwind == unwindSendersStage

SpecUnwind == InitUnwind /\ [][NextUnwind]_vars

\* the blocks a run started at the initial cursor has to cover
RunBlocks == (db0.progress + 1)..StageBlocks

\* C1: after a run that was marked done, every transaction of every block
\* after the cursor the run started from is stored with the sender that
\* direct signature recovery gives.
C1_SendersRecovered ==
    (stageDone /\ crashes = 0) =>
        \A k \in RunBlocks : db.bodies[k] = Recovered(db0.bodies[k])

\* C3: a run that was interrupted after a checkpoint commit and started again
\* ends with the stored bodies that one uninterrupted apply pass leaves.
C3_ResumeSameBodies ==
    (stageDone /\ crashes > 0) =>
        db.bodies = ApplyPass(db0.bodies, NewAddressBuffer(batch, FALSE), file, 0,
                              db0.progress + 1)

\* C4: the progress cursor persisted with a checkpoint is the number of the
\* last block whose body went into the committed batch.
C4_CheckpointIsLastBlock ==
    atCheckpoint => db.progress = lastWritten

\* C8: a run that was not cancelled and met no error ran the spill phase,
\* then the apply phase, then marked the stage done, and returned nil.
C8_RunPhases ==
    (pc \in {"returned", "panicked"} /\ ret # "ErrStopped" /\ applyErr = "nil") =>
        (phases = <<"spill", "apply", "done">> /\ ret = "nil")

\* C9: a call of unwindSendersStage with a point at or beyond the progress
\* cursor leaves the cursor and every body as they were and sets the unwind
\* marker to 0.
C9_UnwindNoop ==
    \A i \in 1..Len(unwound) :
        unwound[i].point >= unwound[i].before.progress =>
            /\ unwound[i].after.progress = unwound[i].before.progress
            /\ unwound[i].after.bodies = unwound[i].before.bodies
            /\ unwound[i].after.unwind = 0

\* a call at or beyond the cursor was made while the marker was set
C9_Witness ==
    \E i \in 1..Len(unwound) :
        /\ unwound[i].point >= unwound[i].before.progress
        /\ unwound[i].before.unwind # 0
        /\ unwound[i].before.progress > 0

\* C10: a call of unwindSendersStage with a point below the progress cursor
\* returns with the cursor equal to the point.
C10_UnwindLowersCursor ==
    \A i \in 1..Len(unwound) :
        unwound[i].point < unwound[i].before.progress =>
            unwound[i].after.progress = unwound[i].point

\* C11: a second run of the apply pass after one that ended without error,
\* over the same database and file, ends with every stored body as the first
\* run left it and with a progress cursor that is not lower.
C11_ApplyIdempotent ==
    (firstPass # <<>> /\ firstPass[1].err = "nil" /\ pc \in {"panicked", "returned"}) =>
        /\ db.bodies = firstPass[1].db.bodies
        /\ db.progress >= firstPass[1].db.progress

\* C18: when the apply pass has ended at the first missing block, nothing it
\* wrote is left uncommitted and the persisted progress cursor is the number
\* of the last block whose body the pass wrote.
C18_FinalCheckpoint ==
    (pc = "panicked" /\ applyErr = "nil" /\ lastWritten > 0) =>
        /\ BatchSize(mutation) = 0
        /\ db.progress = lastWritten

\* every transaction of the body has a sender set
SendersSet(body) == \A i \in 1..Len(body) : body[i].from # <<>>

\* C19: in a first, uninterrupted run, the stage is marked done only if every
\* body after the cursor the run started from is stored with a sender on each
\* transaction; a run whose file was exhausted is not marked done and ends
\* with an error.
C19_DoneOnlyIfComplete ==
    (crashes = 0 /\ firstPass = <<>>) =>
        /\ stageDone => \A k \in RunBlocks : SendersSet(db.bodies[k])
        /\ (pc \in {"returned", "panicked"} /\ applyErr = "EOF") =>
               (~stageDone /\ pc = "returned" /\ ret = "EOF")

\* ------------------------------------------------------------------------
\* SpecSpill: producer, recoverSenders workers, writeOnDiskBatch
\* ------------------------------------------------------------------------

\* the window of writeOnDiskBatch (toSort, 1000 in the source), scaled down
toSort == 2

\* the recoverSenders goroutines of the model (numOfGoroutines is 32 in the
\* source)
Workers == {1, 2}

\* capacity of the channel jobs (50*batchSize in the source)
JobsCap == 1

\* capacity of the channel out (batchSize in the source)
OutCap == 1

\* size of the write-mode AddressBuffer (const batch of line 135), scaled down
spillBatch == 40

\* tx.Protected() && tx.ChainID().Cmp(signer.ChainID()) != 0
ChainMismatch(tx, signer) == tx.protected /\ tx.chain # signer

RECURSIVE recoverFromAt(_, _, _, _)
\* the loop of recoverFrom from transaction i on, froms filled so far
recoverFromAt(body, signer, i, froms) ==
    IF i > Len(body) THEN [froms |-> froms, err |-> "nil"]
    ELSE IF ChainMismatch(body[i], signer)
    THEN [froms |-> <<>>, err |-> "invalid chainId"]
    ELSE IF ~body[i].ok
    THEN [froms |-> <<>>, err |-> "error recovering sender"]
    ELSE recoverFromAt(body, signer, i + 1, Append(froms, body[i].sig))

\* recoverFrom with a plausible slip: the chain ID check is left out
recoverFrom_NoChainCheck(body, signer) ==
    IF \A i \in 1..Len(body) : body[i].ok
    THEN [froms |-> DirectSenders(body), err |-> "nil"]
    ELSE [froms |-> <<>>, err |-> "error recovering sender"]

\* recoverFrom(cryptoContext, blockBody, signer)
recoverFrom(body, signer) == recoverFromAt(body, signer, 1, <<>>)

\* the TxsFroms that recoverSenders builds for a job
ResultOf(job) ==
    LET r == recoverFrom(job.blockBody, job.signer)
    IN  [blockNumber |-> job.nextBlockNumber, froms |-> r.froms, err |-> r.err]

RECURSIVE SortStable(_)
\* sort.SliceStable by blockNumber (insertion of the last element, the rest
\* being sorted, repeated)
SortStable(s) ==
    IF Len(s) <= 1 THEN s
    ELSE LET t    == SortStable(Take(s, Len(s) - 1))
             x    == s[Len(s)]
             k    == Cardinality({i \in 1..Len(t) : t[i].blockNumber <= x.blockNumber})
         IN  Take(t, k) \o <<x>> \o Drop(t, k)

\* the check "hasRow" of writeOnDiskBatch on the sorted buffer
hasRow(buffer, currentBlock) ==
    /\ Len(buffer) >= toSort
    /\ \A i \in 0..Min(Len(buffer) - 1, toSort) :
           buffer[i + 1].blockNumber = currentBlock + i

RECURSIVE Entries(_)
\* the addresses of a sequence of results, in block and transaction order,
\* each with its block number and index
Entries(rs) ==
    IF rs = <<>> THEN <<>>
    ELSE [i \in 1..Len(rs[1].froms) |->
             [block |-> rs[1].blockNumber, index |-> i, addr |-> rs[1].froms[i]]]
         \o Entries(Tail(rs))

\* <<block, index>> of each entry
Marks(es) == [i \in 1..Len(es) |-> <<es[i].block, es[i].index>>]

RECURSIVE AddAll(_, _, _, _)
\* the window flush: n++, buf.Add, and buf.Write once 20*n reaches buf.size
AddAll(a, f, n, es) ==
    IF es = <<>> THEN [a |-> a, file |-> f, n |-> n]
    ELSE LET a1 == Add(a, ToBytes(es[1].addr))
             n1 == n + 1
         IN  IF 20 * n1 >= a1.size
             THEN LET w == Write(a1, f) IN AddAll(w.a, w.file, 0, Tail(es))
             ELSE AddAll(a1, f, n1, Tail(es))

RECURSIVE TailFlush(_, _, _)
\* the deferred flush of what is left in the buffer: per result, its
\* addresses are appended to buf.buf and buf.Write is called
TailFlush(a, f, rs) ==
    IF rs = <<>> THEN [a |-> a, file |-> f]
    ELSE LET a1 == [a EXCEPT !.buf = a.buf \o Flatten(rs[1].froms)]
             w  == Write(a1, f)
         IN  TailFlush(w.a, w.file, Tail(rs))

\* what a return of writeOnDiskBatch leaves: the two deferred functions
Deferred(a, f, buffer) ==
    LET t == TailFlush(a, f, SortStable(buffer))
    IN  Write(t.a, t.file)

\* the bodies a pipeline run may meet in one block
BodyKinds(k) ==
    { PlainBody(k, 1),
      PlainBody(k, 2),
      <<Tx(k, 1), [Tx(k, 2) EXCEPT !.chain = "other"]>>,
      <<[Tx(k, 1) EXCEPT !.chain = "other", !.protected = FALSE]>>,
      <<[Tx(k, 1) EXCEPT !.ok = FALSE]>> }

\* spawnRecoverSendersStage at the start of the spill phase (lines 44-95):
\* the goroutines started, the channels empty
SpillStart ==
    /\ db0 = db
    /\ file = <<>>
    /\ buf = NewAddressBuffer(spillBatch, TRUE)
    /\ filePos = 0
    /\ bInput = <<>>
    /\ bRead = <<>>
    /\ bErr = "nil"
    /\ bPc = "off"
    /\ mutation = NewBatch
    /\ pc = "spill"
    /\ nextBlockNumber = db.progress + 1
    /\ ret = "none"
    /\ stageDone = FALSE
    /\ quit = FALSE
    /\ phases = <<"spill">>
    /\ lastWritten = 0
    /\ atCheckpoint = FALSE
    /\ crashes = 0
    /\ applyErr = "nil"
    /\ unwound = <<>>
    /\ firstPass = <<>>
    /\ jobs = <<>>
    /\ jobsClosed = FALSE
    /\ out = <<>>
    /\ doneCh = FALSE
    /\ prod = [pc |-> "loop", job |-> <<>>]
    /\ firstBlock = [old |-> 0, new |-> 0, cur |-> "old"]
    /\ workers = [w \in Workers |-> [st |-> "idle", res |-> <<>>]]
    /\ writer = [buffer |-> <<>>, currentBlock |-> 0, isFirst |-> TRUE, n |-> 0,
                 flushed |-> 0]
    /\ wRet = "none"
    /\ appended = <<>>
    /\ wErrResult = <<>>
    /\ sent = {}
    /\ SeekIdle

InitSpill ==
    /\ \E special \in 0..NumBlocks :
         \E kind \in (IF special = 0 THEN {<<>>} ELSE BodyKinds(special)) :
           db = [bodies   |-> [k \in Blocks |->
                                 IF k = special THEN kind ELSE PlainBody(k, 1)],
                 progress |-> 0,
                 unwind   |-> 0]
    /\ SpillStart

\* what no step of the pipeline changes
spillFrame == <<filePos, harnessVars, db, mutation, stageDone, phases, lastWritten,
                atCheckpoint, crashes, db0, applyErr, unwound, firstPass>>

\* the producer goroutine, top of the loop: the stop check, getBlockBody, and
\* the store to firstBlock; on a missing block the deferred close(jobs)
Producer_Iter ==
    /\ prod.pc = "loop"
    /\ IF quit
       THEN /\ prod' = [pc |-> "sendErr", job |-> <<>>]
            /\ UNCHANGED <<firstBlock, jobsClosed>>
       ELSE LET job == getBlockBody(Overlay(db, mutation), nextBlockNumber)
            IN  IF job = <<>>
                THEN /\ prod' = [pc |-> "wait", job |-> <<>>]
                     /\ jobsClosed' = TRUE
                     /\ UNCHANGED firstBlock
                ELSE /\ prod' = [pc |-> "sendJob", job |-> job]
                     /\ firstBlock' =
                          IF firstBlock[firstBlock.cur] = 0
                          THEN [firstBlock EXCEPT ![firstBlock.cur] = job[1].nextBlockNumber]
                          ELSE firstBlock
                     /\ UNCHANGED jobsClosed
    /\ UNCHANGED <<buf, file, pc, nextBlockNumber, ret, quit, jobs, out, doneCh,
                   workers, writer, wRet, appended, wErrResult, spillFrame, seekVars, sent>>

\* the producer goroutine: "jobs <- job" and the increment
Producer_Send ==
    /\ prod.pc = "sendJob"
    /\ Len(jobs) < JobsCap
    /\ jobs' = Append(jobs, prod.job[1])
    /\ nextBlockNumber' = nextBlockNumber + 1
    /\ prod' = [pc |-> "loop", job |-> <<>>]
    /\ UNCHANGED <<buf, file, pc, ret, quit, jobsClosed, out, doneCh, firstBlock,
                   workers, writer, wRet, appended, wErrResult, spillFrame, seekVars, sent>>

\* the producer goroutine, deferred: wg.Wait(), close(doneCh), close(errCh)
Producer_Wait ==
    /\ prod.pc = "wait"
    /\ \A w \in Workers : workers[w].st = "exited"
    /\ doneCh' = TRUE
    /\ prod' = [pc |-> "done", job |-> <<>>]
    /\ UNCHANGED <<buf, file, pc, nextBlockNumber, ret, quit, jobs, jobsClosed, out,
                   firstBlock, workers, writer, wRet, appended, wErrResult,
                   spillFrame, seekVars, sent>>

\* recoverSenders: a job is received, recoverFrom runs, the stop check
recoverSenders_Take(w) ==
    /\ workers[w].st = "idle"
    /\ jobs # <<>>
    /\ jobs' = Tail(jobs)
    /\ workers' = [workers EXCEPT ![w] =
                     IF quit THEN [st |-> "exited", res |-> <<>>]
                     ELSE [st |-> "send", res |-> <<ResultOf(Head(jobs))>>]]
    /\ UNCHANGED <<buf, file, pc, nextBlockNumber, ret, quit, jobsClosed, out,
                   doneCh, prod, firstBlock, writer, wRet, appended, wErrResult,
                   spillFrame, seekVars, sent>>

\* recoverSenders: "out <- res"
recoverSenders_Send(w) ==
    /\ workers[w].st = "send"
    /\ Len(out) < OutCap
    /\ out' = Append(out, workers[w].res[1])
    /\ workers' = [workers EXCEPT ![w] = [st |-> "idle", res |-> <<>>]]
    /\ sent' = sent \cup {workers[w].res[1].blockNumber}
    /\ UNCHANGED <<buf, file, pc, nextBlockNumber, ret, quit, jobs, jobsClosed,
                   doneCh, prod, firstBlock, writer, wRet, appended, wErrResult,
                   spillFrame, seekVars>>

\* recoverSenders: the channel jobs is closed and drained, wg.Done()
recoverSenders_Exit(w) ==
    /\ workers[w].st = "idle"
    /\ jobs = <<>>
    /\ jobsClosed
    /\ workers' = [workers EXCEPT ![w] = [st |-> "exited", res |-> <<>>]]
    /\ UNCHANGED <<buf, file, pc, nextBlockNumber, ret, quit, jobs, jobsClosed, out,
                   doneCh, prod, firstBlock, writer, wRet, appended, wErrResult,
                   spillFrame, seekVars, sent>>

\* spawnRecoverSendersStage, lines 125-140: the file is opened, the write
\* buffer made, firstBlock pointed at a fresh cell, writeOnDiskBatch called
Spill_Open ==
    /\ pc = "spill"
    /\ buf' = NewAddressBuffer(spillBatch, TRUE)
    /\ firstBlock' = [firstBlock EXCEPT !.cur = "new"]
    /\ pc' = "writing"
    /\ UNCHANGED <<file, nextBlockNumber, ret, quit, jobs, jobsClosed, out, doneCh,
                   prod, workers, writer, wRet, appended, wErrResult, spillFrame, seekVars, sent>>

\* writeOnDiskBatch returns r: the deferred functions run
WriterReturn(r, buffer) ==
    LET d == Deferred(buf, file, buffer)
    IN  /\ buf' = d.a
        /\ file' = d.file
        /\ appended' = appended \o Marks(Entries(SortStable(buffer)))
        /\ writer' = [writer EXCEPT !.buffer = <<>>, !.isFirst = FALSE]
        /\ wRet' = r
        /\ pc' = "written"

\* writeOnDiskBatch: one iteration of "for j := range out"
writeOnDiskBatch ==
    /\ pc = "writing"
    /\ out # <<>>
    /\ LET j   == Head(out)
           cur == IF writer.isFirst THEN firstBlock.new ELSE writer.currentBlock
           b1  == SortStable(Append(writer.buffer, j))
       IN  /\ out' = Tail(out)
           /\ wErrResult' = IF j.err # "nil" THEN Append(wErrResult, j)
                                              ELSE wErrResult
           /\ IF j.err # "nil"
              THEN WriterReturn("nil", writer.buffer)
              ELSE IF quit
              THEN WriterReturn("ErrStopped", writer.buffer)
              ELSE IF doneCh
              THEN WriterReturn("nil", writer.buffer)
              ELSE IF ~hasRow(b1, cur)
              THEN /\ writer' = [writer EXCEPT !.buffer = b1, !.isFirst = FALSE,
                                               !.currentBlock = cur]
                   /\ UNCHANGED <<buf, file, appended, wRet, pc>>
              ELSE LET es == Entries(Take(b1, toSort))
                       f  == AddAll(buf, file, writer.n, es)
                   IN  /\ writer' = [buffer |-> Drop(b1, toSort),
                                     currentBlock |-> cur + toSort,
                                     isFirst |-> FALSE,
                                     n |-> f.n,
                                     flushed |-> writer.flushed + toSort]
                       /\ buf' = f.a
                       /\ file' = f.file
                       /\ appended' = appended \o Marks(es)
                       /\ UNCHANGED <<wRet, pc>>
    /\ UNCHANGED <<nextBlockNumber, ret, quit, jobs, jobsClosed, doneCh, prod,
                   firstBlock, workers, spillFrame, seekVars, sent>>

\* spawnRecoverSendersStage, lines 143-146: writeOnDiskBatch returned an error
Spill_Failed ==
    /\ pc = "written"
    /\ wRet # "nil"
    /\ pc' = "returned"
    /\ ret' = wRet
    /\ UNCHANGED <<buf, file, nextBlockNumber, quit, jobs, jobsClosed, out, doneCh,
                   prod, firstBlock, workers, writer, wRet, appended, wErrResult,
                   spillFrame, seekVars, sent>>

\* spawnRecoverSendersStage, line 148: "err = <-errCh" meets the producer's
\* "errCh <- err"; the producer goes on to its deferred close(jobs)
Spill_RecvErr ==
    /\ pc = "written"
    /\ wRet = "nil"
    /\ prod.pc = "sendErr"
    /\ prod' = [pc |-> "wait", job |-> <<>>]
    /\ jobsClosed' = TRUE
    /\ pc' = "returned"
    /\ ret' = "ErrStopped"
    /\ UNCHANGED <<buf, file, nextBlockNumber, quit, jobs, out, doneCh, firstBlock,
                   workers, writer, wRet, appended, wErrResult, spillFrame, seekVars, sent>>

\* spawnRecoverSendersStage, line 148: errCh is closed, the receive gives nil
\* and the run goes on to the apply phase
Spill_Done ==
    /\ pc = "written"
    /\ wRet = "nil"
    /\ doneCh
    /\ pc' = "spilled"
    /\ UNCHANGED <<buf, file, nextBlockNumber, ret, quit, jobs, jobsClosed, out,
                   doneCh, prod, firstBlock, workers, writer, wRet, appended,
                   wErrResult, spillFrame, seekVars, sent>>

\* quitCh is closed while the spill phase runs
Spill_Stop ==
    /\ ~quit
    /\ quit' = TRUE
    /\ UNCHANGED <<buf, file, pc, nextBlockNumber, ret, jobs, jobsClosed, out,
                   doneCh, prod, firstBlock, workers, writer, wRet, appended,
                   wErrResult, spillFrame, seekVars, sent>>

NextSpill ==
    \/ Producer_Iter
    \/ Producer_Send
    \/ Producer_Wait
    \/ \E w \in Workers : recoverSenders_Take(w)
    \/ \E w \in Workers : recoverSenders_Send(w)
    \/ \E w \in Workers : recoverSenders_Exit(w)
    \/ Spill_Open
    \/ writeOnDiskBatch
    \/ Spill_Failed
    \/ Spill_RecvErr
    \/ Spill_Done
    \/ Spill_Stop

SpecSpill == InitSpill /\ [][NextSpill]_vars

\* the scheduling of the goroutines: a goroutine that can take its next step
\* (its channel operation can proceed, its wait is over) eventually takes it;
\* nothing obliges quitCh to be closed
SpillFairness ==
    /\ WF_vars(Producer_Iter)
    /\ WF_vars(Producer_Send)
    /\ WF_vars(Producer_Wait)
    /\ \A w \in Workers : /\ WF_vars(recoverSenders_Take(w))
                          /\ WF_vars(recoverSenders_Send(w))
                          /\ WF_vars(recoverSenders_Exit(w))
    /\ WF_vars(Spill_Open)
    /\ WF_vars(writeOnDiskBatch)
    /\ WF_vars(Spill_Failed)
    /\ WF_vars(Spill_RecvErr)
    /\ WF_vars(Spill_Done)

\* number of blocks that storage holds in SpecSpillFair
LiveBlocks == 2

\* the spill phase over blocks of one transaction each, all well formed or
\* the last one with a signature that recovery rejects
InitSpillLive ==
    /\ \E bad \in BOOLEAN :
         db = [bodies   |-> [k \in 1..LiveBlocks |->
                               IF bad /\ k = LiveBlocks
                               THEN <<[Tx(k, 1) EXCEPT !.ok = FALSE]>>
                               ELSE PlainBody(k, 1)],
               progress |-> 0,
               unwind   |-> 0]
    /\ SpillStart

\* SpecSpillFair: the spill phase under the scheduling above
SpecSpillFair == InitSpillLive /\ [][NextSpill]_vars /\ SpillFairness

\* lexicographic order of <<block, index>>
MarkLess(x, y) == x[1] < y[1] \/ (x[1] = y[1] /\ x[2] < y[2])

\* C2: the addresses appended to the spill buffer, window flushes and tail
\* flush together, are in strictly ascending block (then transaction) order.
C2_AppendedAscending ==
    \A p, q \in 1..Len(appended) : p < q => MarkLess(appended[p], appended[q])

\* C6: when writeOnDiskBatch has received a result that carries an error, it
\* has returned, and with a non-nil error.
C6_ErrorResultPropagates ==
    wErrResult # <<>> => (wRet # "none" /\ wRet # "nil")

\* a body with a replay-protected transaction of another chain
HasMismatch(body) == \E i \in 1..Len(body) : ChainMismatch(body[i], "main")

\* C7: the result of a worker for a block with a replay-protected transaction
\* of another chain carries an error and no addresses, and no address of such
\* a block is appended to the spill buffer.
C7_MismatchFailsBlock ==
    /\ \A w \in Workers :
          (workers[w].st = "send" /\ HasMismatch(db.bodies[workers[w].res[1].blockNumber]))
              => (workers[w].res[1].err # "nil" /\ workers[w].res[1].froms = <<>>)
    /\ \A p \in 1..Len(appended) : ~HasMismatch(db.bodies[appended[p][1]])

\* the writer received the result of a block whose second transaction is of
\* another chain, after addresses of other blocks were appended
C7_Witness ==
    /\ wErrResult # <<>>
    /\ HasMismatch(db.bodies[wErrResult[1].blockNumber])
    /\ ~ChainMismatch(db.bodies[wErrResult[1].blockNumber][1], "main")
    /\ appended # <<>>
    /\ wRet # "none"

\* record i of the spill file, as an address
RecordAt(f, i) == SetBytes(SubSeq(f, AddressLength * (i - 1) + 1, AddressLength * i))

\* the addresses that the spill file holds
FileAddrs == {RecordAt(file, i) : i \in 1..(Len(file) \div AddressLength)}

\* the block of the transaction that a recovered address belongs to
BlockOfSig(a) == a \div 10

\* the block numbers whose addresses the spill file holds
FileBlocks == {BlockOfSig(a) : a \in FileAddrs}

\* C12: at every moment the block numbers whose addresses are in the spill
\* file are the first block of the run and its successors up to some block,
\* without a gap.
C12_SpillGapFree ==
    \E k \in 0..NumBlocks : FileBlocks = (db0.progress + 1)..k

\* no body of the database makes recoverFrom fail
NoDataError == \A k \in DOMAIN db.bodies : recoverFrom(db.bodies[k], "main").err = "nil"

\* C13: in a run without stop signal and without error result, when
\* writeOnDiskBatch has returned, every address of every result that a worker
\* has put on the channel out is in the spill file.
C13_SentResultsSpilled ==
    (wRet # "none" /\ ~quit /\ NoDataError) =>
        \A k \in sent : \A i \in 1..Len(db.bodies[k]) : Sig(k, i) \in FileAddrs

\* C16: in a step taken while the stop signal is tripped, no worker puts a
\* result on the channel out.
C16_NoResultAfterStop ==
    [][quit => sent' = sent]_vars

\* the block numbers of a sequence of results
BlocksOf(rs) == {rs[i].blockNumber : i \in 1..Len(rs)}

\* C17: in a step of writeOnDiskBatch that adds a result to the buffer, if
\* the buffer then holds a result for each of the toSort blocks from next on
\* (next: the first block of the run plus the blocks already flushed by
\* windows), the step removes exactly those results, appends their addresses
\* and counts toSort more blocks as flushed.
C17_WindowFlushed ==
    [][(pc = "writing" /\ out # <<>> /\ out' = Tail(out) /\ wRet' = "none") =>
         LET next   == db0.progress + 1 + writer.flushed
             window == next..(next + toSort - 1)
             held   == BlocksOf(writer.buffer) \cup {Head(out).blockNumber}
         IN  window \subseteq held =>
               /\ writer'.flushed = writer.flushed + toSort
               /\ BlocksOf(writer'.buffer) = held \ window
               /\ {appended'[p][1] : p \in (Len(appended) + 1)..Len(appended')} = window
      ]_vars

\* C14: without stop signal and without data error, once the producer has met
\* the first missing block, writeOnDiskBatch eventually returns and the run
\* goes on to the apply phase.
C14_SpillPhaseEnds ==
    (NoDataError /\ ~quit /\ prod.pc \in {"wait", "done"}) ~> (pc = "spilled" \/ quit)

\* the producer goroutine, every worker and writeOnDiskBatch have ended
AllTerminated ==
    /\ prod.pc = "done"
    /\ \A w \in Workers : workers[w].st = "exited"
    /\ wRet # "none"

\* C15: after the stop signal is tripped, the producer goroutine, every
\* worker and writeOnDiskBatch eventually end.
C15_StopTerminatesAll ==
    quit ~> AllTerminated

\* ------------------------------------------------------------------------
\* SpecSeek: KvServer.Seek
\* ------------------------------------------------------------------------

\* keys of the bucket are 0..MaxKey; a key is a first part (the key halved)
\* and a last bit
MaxKey == 2

\* what the store holds for a key: 0 when the key is absent, else its value
Stored == {0, 1}

\* commits of other transactions that the model follows while a stream is
\* open
MaxKvWrites == 1

\* the handler looks at the age of its transaction every RenewEvery items
\* (128 in the source), scaled down
RenewEvery == 2

Keys == 0..MaxKey

\* the nil key
NilKey == -1

\* the position of a cursor that ran off the end
EndPos == MaxKey + 1

\* the prefixes a client may ask for: none, or the first digit of the key
Prefixes == {<<>>} \cup {<<h>> : h \in 0..(MaxKey \div 2)}

\* bytes.HasPrefix(k, prefix)
HasPrefix(k, prefix) == prefix = <<>> \/ k \div 2 = prefix[1]

\* the cursor on position pos of snapshot tx: the pair it returns (nil when
\* it ran off the end or off the prefix)
CursorAt(tx, prefix, pos) ==
    IF pos \in Keys /\ HasPrefix(pos, prefix)
    THEN [pos |-> pos, k |-> pos, v |-> tx[pos]]
    ELSE [pos |-> pos, k |-> NilKey, v |-> 0]

\* the first key of the snapshot among the candidates, or EndPos
FirstOf(tx, cand) ==
    LET S == {k \in cand : tx[k] # 0}
    IN  IF S = {} THEN EndPos ELSE CHOOSE k \in S : \A j \in S : k <= j

\* c.Seek(key): the first key at or after key
CursorSeek(tx, prefix, key) ==
    CursorAt(tx, prefix, FirstOf(tx, {k \in Keys : k >= key}))

\* c.Next(): the first key after the position of the cursor
CursorNext(tx, prefix, pos) ==
    CursorAt(tx, prefix, FirstOf(tx, {k \in Keys : k > pos}))

\* the messages a client may send
SeekRequests ==
    [SeekKey : Keys, Prefix : Prefixes, StartSreaming : BOOLEAN]

\* line 114 with a plausible slip: the test of the flag is inverted
WaitsForClient_Inverted(in) == in.StartSreaming

\* line 114: the handler waits for the client before the next item
WaitsForClient(in) == ~in.StartSreaming

\* lines 125-134 and the post statement of line 99: the item is counted, the
\* transaction is renewed if it is old (expired) and the cursor goes on
Advance(sk, expired) ==
    LET i1    == sk.i + 1
        renew == i1 % RenewEvery = 0 /\ expired
        tx1   == IF renew THEN kv ELSE sk.tx
        pos1  == IF renew THEN FirstOf(tx1, {k \in Keys : k >= sk.k}) ELSE sk.pos
        c     == CursorNext(tx1, sk.prefix, pos1)
    IN  [sk EXCEPT !.pc = "send", !.i = i1, !.tx = tx1, !.pos = c.pos,
                   !.k = c.k, !.v = c.v,
                   !.renewals = IF renew THEN @ + 1 ELSE @]

InitSeek ==
    /\ kv \in [Keys -> Stored]
    /\ seek = [pc |-> "start"]
    /\ stream = [recvd |-> 0, sent |-> <<>>, lockStep |-> TRUE, commits |-> 0]
    /\ buf = NewAddressBuffer(batch, FALSE)
    /\ file = <<>>
    /\ filePos = 0
    /\ bInput = <<>>
    /\ bRead = <<>>
    /\ bErr = "nil"
    /\ bPc = "off"
    /\ db = [bodies |-> <<>>, progress |-> 0, unwind |-> 0]
    /\ db0 = db
    /\ StageIdle

seekFrame == <<bufVars, dbVars, stageVars, pipeVars>>

\* Seek, lines 77-99: the first Recv, Begin, the cursor with its prefix, and
\* c.Seek(in.SeekKey)
Seek_Begin ==
    /\ seek.pc = "start"
    /\ \/ /\ seek' = [pc |-> "returned", ret |-> "recvErr"]
          /\ UNCHANGED stream
       \/ \E in \in SeekRequests :
            LET c == CursorSeek(kv, in.Prefix, in.SeekKey)
            IN  /\ seek' = [pc |-> "send", in |-> in, prefix |-> in.Prefix,
                            tx |-> kv, pos |-> c.pos, k |-> c.k, v |-> c.v,
                            i |-> 0, renewals |-> 0, ret |-> "none"]
                /\ stream' = [stream EXCEPT !.recvd = 1,
                                            !.lockStep = ~in.StartSreaming]
    /\ UNCHANGED <<kv, seekFrame>>

\* Seek, lines 105-114: stream.Send of the pair, the return after a nil key;
\* when the client asked for streaming, the next item without a Recv
Seek_Send ==
    /\ seek.pc = "send"
    /\ \/ /\ seek' = [seek EXCEPT !.pc = "returned", !.ret = "sendErr"]
          /\ UNCHANGED stream
       \/ /\ stream' = [stream EXCEPT !.sent = Append(@, [key |-> seek.k,
                                                           value |-> seek.v])]
          /\ IF seek.k = NilKey
             THEN seek' = [seek EXCEPT !.pc = "returned", !.ret = "nil"]
             ELSE IF WaitsForClient(seek.in)
             THEN seek' = [seek EXCEPT !.pc = "recv"]
             ELSE \E expired \in BOOLEAN : seek' = Advance(seek, expired)
    /\ UNCHANGED <<kv, seekFrame>>

\* Seek, lines 115-134: stream.Recv of the client's signal, then the next item
Seek_Recv ==
    /\ seek.pc = "recv"
    /\ \/ /\ \E r \in {"nil", "recvErr"} :
               seek' = [seek EXCEPT !.pc = "returned", !.ret = r]
          /\ UNCHANGED stream
       \/ \E in \in SeekRequests, expired \in BOOLEAN :
            /\ seek' = Advance([seek EXCEPT !.in = in], expired)
            /\ stream' = [stream EXCEPT !.recvd = @ + 1,
                                        !.lockStep = @ /\ ~in.StartSreaming]
    /\ UNCHANGED <<kv, seekFrame>>

\* another transaction commits a put or a delete of one key
KvWrite ==
    /\ seek.pc \in {"send", "recv"}
    /\ stream.commits < MaxKvWrites
    /\ \E k \in Keys, v \in Stored :
         /\ kv[k] # v
         /\ kv' = [kv EXCEPT ![k] = v]
    /\ stream' = [stream EXCEPT !.commits = @ + 1]
    /\ UNCHANGED <<seek, seekFrame>>

NextSeek == Seek_Begin \/ Seek_Send \/ Seek_Recv \/ KvWrite

SpecSeek == InitSeek /\ [][NextSeek]_vars

\* the keys of the pairs sent so far
SentKeys == [p \in 1..Len(stream.sent) |-> stream.sent[p].key]

\* C20: while every message received had StartSreaming false, the pairs sent
\* are never more than the messages received, their keys ascend as the
\* cursor moves (each with the prefix, none before the key sought), and a
\* pair with the nil key is the last one: the handler has returned.
C20_LockStep ==
    stream.lockStep =>
        /\ Len(stream.sent) <= stream.recvd
        /\ \A p, q \in 1..Len(SentKeys) :
              (p < q /\ SentKeys[q] # NilKey) => SentKeys[p] < SentKeys[q]
        /\ \A p \in 1..Len(SentKeys) :
              SentKeys[p] # NilKey => HasPrefix(SentKeys[p], seek.prefix)
        /\ \A p \in 1..Len(SentKeys) :
              SentKeys[p] = NilKey =>
                  (p = Len(SentKeys) /\ seek.pc = "returned" /\ seek.ret = "nil")

\* a stream of three pairs or more in lock-step, the last with the nil key,
\* over a transaction that was renewed
C20_Witness ==
    /\ stream.lockStep
    /\ Len(stream.sent) >= 3
    /\ stream.recvd = Len(stream.sent)
    /\ SentKeys[Len(SentKeys)] = NilKey
    /\ seek.renewals > 0

====
